---- MODULE Spec2Model ----
(***************************************************************************)
(* Model of src/app.js: the CSV parser inside fetchAndParseCSV, the        *)
(* expiry classifier computeExpiryInfo, the view builder renderAll and     *)
(* the event handlers (window load -> init, refresh click, sort/filter     *)
(* change).                                                                *)
(*                                                                         *)
(* A JavaScript string is a sequence of one-character strings, so that     *)
(* trim, split and parseInt are computed character by character.  The      *)
(* column names of the sheet are Chinese in the source; TLA+ strings are   *)
(* ASCII, so the model spells them with ASCII stand-ins of its own:        *)
(*   name = '名稱', cat = '類別', qty = '數量',                            *)
(*   exp  = '到期日(YYYY-MM-DD)', note = '備註'.                            *)
(***************************************************************************)
EXTENDS Integers, Sequences, FiniteSets, TLC

VARIABLES
    today,        \* new Date(): the current local calendar date [y, m, d]
    tz,           \* the browser's time zone: "fixed" offset or "dst"
    probe,        \* which pure function a probe run exercises, or "app"
    expiryStr,    \* argument of the computeExpiryInfo call under test
    info,         \* its result, once it returned
    text,         \* the text handed to the parser under test: its lines, and
                  \* as raw what resp.text() delivers
    data,         \* the parser's result, once it returned
    items,        \* let items = []  (src/app.js:45)
    dom,          \* what renderAll last wrote to the page
    filterValue,  \* filterSelect.value
    sortValue,    \* sortSelect.value
    btn,          \* refreshBtn: [disabled, label]
    initCall,     \* the init() call of the load listener
    refreshCall,  \* the running refresh click handler
    started,      \* number of fetches started so far
    itemsFrom,    \* start number of the fetch whose response items holds
    fetched,      \* the array that fetch assigned to items
    last,         \* the handler step taken last, with what it saw
    unhandled     \* TRUE once a rejected promise had no handler

vars == <<today, tz, probe, expiryStr, info, text, data, items, dom,
          filterValue, sortValue, btn, initCall, refreshCall, started,
          itemsFrom, fetched, last, unhandled>>

----------------------------------------------------------------------------
(* Bounds *)

MaxParts == 4     \* '-'-separated components in a probed expiry string
MaxRows == 2      \* data lines in a fetched or probed text
MaxFetches == 2   \* fetches started in one session

----------------------------------------------------------------------------
(* JavaScript values *)

NotCalled == [called |-> FALSE]
Returned(v) == [called |-> TRUE, value |-> v]
Null == [kind |-> "null", val |-> 0]
NaN == [kind |-> "NaN", val |-> 0]
Num(n) == [kind |-> "number", val |-> n]
IsNum(v) == v.kind = "number"
Undefined == <<"undefined">>

----------------------------------------------------------------------------
(* String.prototype.trim, String.prototype.split, parseInt *)

WhiteSpace == {" ", "\t", "\n", "\r"}
DigitChars == <<"0", "1", "2", "3", "4", "5", "6", "7", "8", "9">>
IsDigit(c) == \E i \in 1..10 : DigitChars[i] = c
DigitVal(c) == (CHOOSE i \in 1..10 : DigitChars[i] = c) - 1

RECURSIVE trimStart(_)
trimStart(s) ==
    IF s # <<>> /\ Head(s) \in WhiteSpace THEN trimStart(Tail(s)) ELSE s

RECURSIVE trimEnd(_)
trimEnd(s) ==
    IF s # <<>> /\ s[Len(s)] \in WhiteSpace
    THEN trimEnd(SubSeq(s, 1, Len(s) - 1))
    ELSE s

trim(s) == trimEnd(trimStart(s))

\* s.split(sep) for a one-character separator: never the empty sequence
RECURSIVE split(_, _)
split(s, sep) ==
    IF \E i \in 1..Len(s) : s[i] = sep
    THEN LET i == CHOOSE k \in 1..Len(s) :
                      s[k] = sep /\ \A j \in 1..(k - 1) : s[j] # sep
         IN  <<SubSeq(s, 1, i - 1)>> \o split(SubSeq(s, i + 1, Len(s)), sep)
    ELSE <<s>>

\* s.split(/\r?\n/): a line break is "\n" with the "\r" right before it
splitLines(s) ==
    LET raw == split(s, "\n")
        chop(l) == IF l # <<>> /\ l[Len(l)] = "\r"
                   THEN SubSeq(l, 1, Len(l) - 1) ELSE l
    IN  [i \in 1..Len(raw) |-> IF i < Len(raw) THEN chop(raw[i]) ELSE raw[i]]

RECURSIVE digitPrefix(_)
digitPrefix(s) ==
    IF s # <<>> /\ IsDigit(Head(s))
    THEN <<Head(s)>> \o digitPrefix(Tail(s))
    ELSE <<>>

RECURSIVE digitsValue(_)
digitsValue(ds) ==
    IF ds = <<>> THEN 0
    ELSE 10 * digitsValue(SubSeq(ds, 1, Len(ds) - 1)) + DigitVal(ds[Len(ds)])

\* parseInt(s, 10): leading white space and a sign are skipped, the longest
\* prefix of digits is the value, whatever follows it is ignored
parseInt(s) ==
    LET t == trimStart(s)
        signed == t # <<>> /\ Head(t) \in {"+", "-"}
        u == IF signed THEN Tail(t) ELSE t
        ds == digitPrefix(u)
    IN  IF ds = <<>> THEN NaN
        ELSE IF signed /\ Head(t) = "-" THEN Num(0 - digitsValue(ds))
        ELSE Num(digitsValue(ds))

----------------------------------------------------------------------------
(* Date: local midnights, counted in hours *)

\* day number (days since 1970-01-01) of the first of a month, m in 1..12
DaysFromCivil(y, m, d) ==
    LET yy == IF m <= 2 THEN y - 1 ELSE y
        era == yy \div 400
        yoe == yy - era * 400
        mp == IF m > 2 THEN m - 3 ELSE m + 9
        doy == (153 * mp + 2) \div 5 + d - 1
        doe == yoe * 365 + yoe \div 4 - yoe \div 100 + doy
    IN  era * 146097 + doe - 719468

\* month (1..12) of a day number
MonthOfDay(z) ==
    LET zz == z + 719468
        era == zz \div 146097
        doe == zz - era * 146097
        yoe == (doe - doe \div 1460 + doe \div 36524 - doe \div 146096) \div 365
        doy == doe - (365 * yoe + yoe \div 4 - yoe \div 100)
        mp == (5 * doy + 2) \div 153
    IN  IF mp < 10 THEN mp + 3 ELSE mp - 9

MaxDay == 100000000

\* new Date(year, monthIndex, date): years 0..99 mean 1900..1999, a month
\* index outside 0..11 and a date outside the month roll over, a day beyond
\* the time range gives an invalid Date
NewDate(year, monthIndex, date) ==
    LET yr == IF 0 <= year /\ year <= 99 THEN 1900 + year ELSE year
        ym == yr + (monthIndex \div 12)
        mn == monthIndex % 12
        day == DaysFromCivil(ym, mn + 1, 1) + date - 1
    IN  IF day > MaxDay \/ day < 0 - MaxDay THEN NaN ELSE Num(day)

\* hours by which local time is ahead of standard time on a day: one hour in
\* April..October in a zone that observes daylight saving time
DstHours(day, zone) ==
    IF zone = "dst" /\ MonthOfDay(day) \in 4..10 THEN 1 ELSE 0

\* local midnight of a day, in hours since the epoch of the zone
LocalMidnight(day, zone) == day * 24 - DstHours(day, zone)

HoursPerDay == 24

\* Math.ceil(h / 24)
CeilDays(h) == 0 - ((0 - h) \div HoursPerDay)

----------------------------------------------------------------------------
(* computeExpiryInfo  (src/app.js:83-100) *)

NoExpiry == [daysLeft |-> Null, status |-> "noexpiry"]

ExpiredMax == 30
SoonMax == 89

\* diffDays < 30 in place of diffDays <= 30
statusOf_strict(diffDays) ==
    IF ~IsNum(diffDays) THEN "safe"
    ELSE IF diffDays.val < ExpiredMax THEN "expired"
    ELSE IF diffDays.val <= SoonMax THEN "soon"
    ELSE "safe"

statusOf(diffDays) ==
    IF ~IsNum(diffDays) THEN "safe"
    ELSE IF diffDays.val <= ExpiredMax THEN "expired"
    ELSE IF diffDays.val <= SoonMax THEN "soon"
    ELSE "safe"

\* now and zone are what new Date() reads from the browser
computeExpiryInfo(str, now, zone) ==
    IF str = Undefined \/ str = <<>> \/ trim(str) = <<"-">> THEN NoExpiry
    ELSE
      LET comps == split(str, "-")
          parts == [i \in 1..Len(comps) |-> parseInt(comps[i])]
      IN  IF Len(parts) # 3 \/ \E i \in 1..Len(parts) : parts[i] = NaN
          THEN NoExpiry
          ELSE
            LET todayDay == DaysFromCivil(now.y, now.m, now.d)
                expiry == NewDate(parts[1].val, parts[2].val - 1, parts[3].val)
                diffDays ==
                    IF expiry = NaN THEN NaN
                    ELSE Num(CeilDays(LocalMidnight(expiry.val, zone)
                                      - LocalMidnight(todayDay, zone)))
            IN  [daysLeft |-> diffDays, status |-> statusOf(diffDays)]

----------------------------------------------------------------------------
(* fetchAndParseCSV  (src/app.js:52-72), from resp.text() on *)

\* CSV_URL.includes("<YOUR_PUB_ID>") is false for the configured URL
UrlIsPlaceholder == FALSE

\* cols after  while (cols.length < headers.length) cols.push('')
padded(cols, n) ==
    [i \in 1..(IF Len(cols) < n THEN n ELSE Len(cols)) |->
        IF i <= Len(cols) THEN cols[i] ELSE <<>>]

\* headers.forEach((h,i) => obj[h] = cols[i] || ''): a repeated header
\* name keeps the value of its last column
rowObject(headers, line) ==
    LET raw == split(line, ",")
        cols == padded([i \in 1..Len(raw) |-> trim(raw[i])], Len(headers))
        keys == {headers[i] : i \in 1..Len(headers)}
        lastIdx(h) == CHOOSE i \in 1..Len(headers) :
                         headers[i] = h
                         /\ \A j \in (i + 1)..Len(headers) : headers[j] # h
    IN  [h \in keys |-> cols[lastIdx(h)]]

\* the text split without text.trim()
parseCSV_noTrim(txt) ==
    LET lines == splitLines(txt)
    IN  IF Len(lines) <= 1 THEN <<>>
        ELSE LET hraw == split(lines[1], ",")
                 headers == [i \in 1..Len(hraw) |-> trim(hraw[i])]
             IN  [k \in 1..(Len(lines) - 1) |-> rowObject(headers, lines[k + 1])]

parseCSV(txt) ==
    LET lines == splitLines(trim(txt))
    IN  IF Len(lines) <= 1 THEN <<>>
        ELSE LET hraw == split(lines[1], ",")
                 headers == [i \in 1..Len(hraw) |-> trim(hraw[i])]
             IN  [k \in 1..(Len(lines) - 1) |-> rowObject(headers, lines[k + 1])]

fetchAndParseCSV(txt) == IF UrlIsPlaceholder THEN <<>> ELSE parseCSV(txt)

----------------------------------------------------------------------------
(* renderAll  (src/app.js:105-164) *)

KeyName == <<"n", "a", "m", "e">>
KeyCat == <<"c", "a", "t">>
KeyQty == <<"q", "t", "y">>
KeyExp == <<"e", "x", "p">>
KeyNote == <<"n", "o", "t", "e">>

\* r[key]: undefined when the record has no such property
Get(r, key) == IF key \in DOMAIN r THEN r[key] ELSE Undefined

\* r => ({...r, _meta: computeExpiryInfo(r['exp'])})
withMeta(r, now, zone) ==
    [rec |-> r, meta |-> computeExpiryInfo(Get(r, KeyExp), now, zone)]

classify(raw, now, zone) ==
    [i \in 1..Len(raw) |-> withMeta(raw[i], now, zone)]

Letters == <<"a", "b", "c", "d", "e", "f", "g", "h", "i", "j", "k", "l", "m",
             "n", "o", "p", "q", "r", "s", "t", "u", "v", "w", "x", "y", "z">>
LetterRank(c) ==
    IF \E i \in 1..Len(Letters) : Letters[i] = c
    THEN CHOOSE i \in 1..Len(Letters) : Letters[i] = c
    ELSE 0

\* a.localeCompare(b) on lower-case words: -1, 0 or 1
RECURSIVE localeCompare(_, _)
localeCompare(a, b) ==
    IF a = <<>> /\ b = <<>> THEN 0
    ELSE IF a = <<>> THEN -1
    ELSE IF b = <<>> THEN 1
    ELSE IF LetterRank(Head(a)) < LetterRank(Head(b)) THEN -1
    ELSE IF LetterRank(Head(a)) > LetterRank(Head(b)) THEN 1
    ELSE localeCompare(Tail(a), Tail(b))

\* a['cat'] || ''
catOrEmpty(i) == IF Get(i.rec, KeyCat) = Undefined THEN <<>> ELSE Get(i.rec, KeyCat)

NullSortKey == 99999

\* a._meta.daysLeft === null ? 99999 : a._meta.daysLeft
expiryKey(i) == IF i.meta.daysLeft = Null THEN Num(NullSortKey) ELSE i.meta.daysLeft

\* the comparators handed to Array.prototype.sort; NaN counts as 0
compare(mode, a, b) ==
    IF mode = "category" THEN localeCompare(catOrEmpty(a), catOrEmpty(b))
    ELSE IF IsNum(expiryKey(a)) /\ IsNum(expiryKey(b))
         THEN expiryKey(a).val - expiryKey(b).val
         ELSE 0

\* x goes behind every element that does not compare greater than it
RECURSIVE insertSorted(_, _, _)
insertSorted(mode, sorted, x) ==
    IF sorted = <<>> THEN <<x>>
    ELSE IF compare(mode, Head(sorted), x) <= 0
         THEN <<Head(sorted)>> \o insertSorted(mode, Tail(sorted), x)
         ELSE <<x>> \o sorted

\* Array.prototype.sort with a comparator: stable
RECURSIVE sort(_, _)
sort(mode, arr) ==
    IF arr = <<>> THEN <<>>
    ELSE insertSorted(mode, sort(mode, SubSeq(arr, 1, Len(arr) - 1)), arr[Len(arr)])

RECURSIVE filterSeq(_, _)
filterSeq(arr, keep) ==
    IF arr = <<>> THEN <<>>
    ELSE IF Head(arr) \in keep THEN <<Head(arr)>> \o filterSeq(Tail(arr), keep)
    ELSE filterSeq(Tail(arr), keep)

Range(arr) == {arr[i] : i \in 1..Len(arr)}

\* items.filter(i => i._meta.status === st).length
countStatus(arr, st) == Cardinality({i \in 1..Len(arr) : arr[i].meta.status = st})

All == <<"a", "l", "l">>

isUrgent(i) ==
    i.meta.status = "expired"
    \/ (i.meta.daysLeft # Null /\ IsNum(i.meta.daysLeft)
        /\ i.meta.daysLeft.val <= ExpiredMax)

Unrendered == [rendered |-> FALSE]

\* renderAll() gives the page and the items array as the call leaves it

\* the sort applied to items itself instead of a copy
renderAll_sortsItems(its, selectedFilter, sortMode) ==
    LET sorted == IF sortMode \in {"category", "expiry"}
                  THEN sort(sortMode, its) ELSE its
        shown == IF selectedFilter # <<>> /\ selectedFilter # All
                 THEN filterSeq(sorted, {i \in Range(sorted) :
                                            Get(i.rec, KeyCat) = selectedFilter})
                 ELSE sorted
        urgents == sort("expiry", filterSeq(sorted, {i \in Range(sorted) : isUrgent(i)}))
    IN  [items |-> sorted,
         dom |-> [rendered |-> TRUE,
                  total |-> Len(sorted),
                  safe |-> countStatus(sorted, "safe"),
                  soon |-> countStatus(sorted, "soon"),
                  expired |-> countStatus(sorted, "expired"),
                  urgents |-> urgents,
                  noUrgentMsg |-> (urgents = <<>>),
                  cards |-> shown]]

\* the summary counted over the filtered list instead of items
renderAll_countsFiltered(its, selectedFilter, sortMode) ==
    LET filtered == IF selectedFilter # <<>> /\ selectedFilter # All
                    THEN filterSeq(its, {i \in Range(its) :
                                           Get(i.rec, KeyCat) = selectedFilter})
                    ELSE its
        shown == IF sortMode \in {"category", "expiry"}
                 THEN sort(sortMode, filtered) ELSE filtered
        urgents == sort("expiry", filterSeq(its, {i \in Range(its) : isUrgent(i)}))
    IN  [items |-> its,
         dom |-> [rendered |-> TRUE,
                  total |-> Len(filtered),
                  safe |-> countStatus(filtered, "safe"),
                  soon |-> countStatus(filtered, "soon"),
                  expired |-> countStatus(filtered, "expired"),
                  urgents |-> urgents,
                  noUrgentMsg |-> (urgents = <<>>),
                  cards |-> shown]]

\* sliced is the copy items.slice(): sorting it leaves items as it was
renderAll(its, selectedFilter, sortMode) ==
    LET sliced == its
        filtered == IF selectedFilter # <<>> /\ selectedFilter # All
                    THEN filterSeq(sliced, {i \in Range(sliced) :
                                              Get(i.rec, KeyCat) = selectedFilter})
                    ELSE sliced
        shown == IF sortMode \in {"category", "expiry"}
                 THEN sort(sortMode, filtered) ELSE filtered
        urgents == sort("expiry", filterSeq(its, {i \in Range(its) : isUrgent(i)}))
    IN  [items |-> its,
         dom |-> [rendered |-> TRUE,
                  total |-> Len(its),
                  safe |-> countStatus(its, "safe"),
                  soon |-> countStatus(its, "soon"),
                  expired |-> countStatus(its, "expired"),
                  urgents |-> urgents,
                  noUrgentMsg |-> (urgents = <<>>),
                  cards |-> shown]]

----------------------------------------------------------------------------
(* Inputs *)

RECURSIVE Join(_, _)
Join(strs, sep) ==
    IF strs = <<>> THEN <<>>
    ELSE IF Len(strs) = 1 THEN strs[1]
    ELSE strs[1] \o sep \o Join(Tail(strs), sep)

Todays == {[y |-> 2026, m |-> 12, d |-> 1],
           [y |-> 2026, m |-> 11, d |-> 1],
           [y |-> 2026, m |-> 9, d |-> 3]}

Zones == {"fixed", "dst"}

\* components of the probed expiry strings: "2026", "12", "1", "2", "1x", ""
ExpiryTokens == {<<"2", "0", "2", "6">>, <<"1", "2">>, <<"1">>, <<"2">>,
                 <<"1", "x">>, <<>>}

\* " ", " - ", "2026-12- 2", "2026-12-01", "2400-1-1", "300000-1-1"
ExtraExpiryInputs ==
    {<<" ">>, <<" ", "-", " ">>,
     <<"2", "0", "2", "6", "-", "1", "2", "-", " ", "2">>,
     <<"2", "0", "2", "6", "-", "1", "2", "-", "0", "1">>,
     <<"2", "4", "0", "0", "-", "1", "-", "1">>,
     <<"3", "0", "0", "0", "0", "0", "-", "1", "-", "1">>}

ExpiryInputs ==
    ExtraExpiryInputs
    \cup UNION {{Join(ts, <<"-">>) : ts \in [1..n -> ExpiryTokens]} : n \in 1..MaxParts}

\* header lines of the probed texts: "a,b,c", " a , b ", "a,a", " "
ProbeHeaders == {<<"a", ",", "b", ",", "c">>,
                 <<" ", "a", " ", ",", " ", "b", " ">>,
                 <<"a", ",", "a">>,
                 <<" ">>}

\* data lines of the probed texts: "1,2,3", "1", "1,2,3,4", " 1 , 2", "", " ", ",,"
ProbeLines == {<<"1", ",", "2", ",", "3">>,
               <<"1">>,
               <<"1", ",", "2", ",", "3", ",", "4">>,
               <<" ", "1", " ", ",", " ", "2">>,
               <<>>,
               <<" ">>,
               <<",", ",">>}

LineBreaks == {<<"\n">>, <<"\r", "\n">>}

\* a text made of a header line and data lines, the last line ended or not
\* by a line break; an empty last data line is always ended by one, so that
\* the text tells it from the end of the line before
ProbeTexts ==
    {t \in {[header |-> h, rows |-> rs, end |-> end,
             raw |-> Join(<<h>> \o rs, br) \o end] :
                h \in ProbeHeaders,
                rs \in UNION {[1..k -> ProbeLines] : k \in 0..MaxRows},
                br \in LineBreaks,
                end \in {<<>>, <<"\n">>}} :
        (t.rows # <<>> /\ t.rows[Len(t.rows)] = <<>>) => t.end # <<>>}

AppToday == [y |-> 2026, m |-> 11, d |-> 1]
AppZone == "dst"

\* "name,cat,qty,exp,note"
SheetHeader == Join(<<KeyName, KeyCat, KeyQty, KeyExp, KeyNote>>, <<",">>)

\* "w,a,1,-"  "x,b,2,2026-11-11"  "y,a,3,2026-12-11"  "v,b,,2400-01-01,k"
SheetRows ==
    {<<"w", ",", "a", ",", "1", ",", "-">>,
     <<"x", ",", "b", ",", "2", ",", "2", "0", "2", "6", "-", "1", "1", "-", "1", "1">>,
     <<"y", ",", "a", ",", "3", ",", "2", "0", "2", "6", "-", "1", "2", "-", "1", "1">>,
     <<"v", ",", "b", ",", ",", "2", "4", "0", "0", "-", "0", "1", "-", "0", "1", ",", "k">>}

\* what resp.text() can deliver: the header and up to MaxRows different rows
Responses ==
    {Join(<<SheetHeader>> \o rs, <<"\n">>) :
        rs \in UNION {{f \in [1..k -> SheetRows] :
                          \A i, j \in 1..k : i # j => f[i] # f[j]} :
                      k \in 0..MaxRows}}

\* fetchAndParseCSV over the responses, tabulated
parsed == [txt \in Responses |-> fetchAndParseCSV(txt)]

\* raw.map(r => ({...r, _meta: computeExpiryInfo(...)})) over the responses,
\* at the date and in the zone of the page, tabulated
mappedRaw == [txt \in Responses |-> classify(parsed[txt], AppToday, AppZone)]

FilterValues == {All, <<"a">>, <<"c">>}
SortValues == {"none", "category", "expiry"}

----------------------------------------------------------------------------
(* The page and its handlers *)

ReadyBtn == [disabled |-> FALSE, label |-> "ready"]
BusyBtn == [disabled |-> TRUE, label |-> "updating"]
Idle == [pc |-> "idle", n |-> 0]
Fetching(n) == [pc |-> "fetching", n |-> n]
Done == [pc |-> "done", n |-> 0]
NoStep == [step |-> "none", rows |-> 0, alerted |-> FALSE, stale |-> FALSE]
Step(s, rows, alerted, stale) ==
    [step |-> s, rows |-> rows, alerted |-> alerted, stale |-> stale]

PageInit ==
    /\ items = <<>>
    /\ fetched = <<>>
    /\ dom = Unrendered
    /\ filterValue = All
    /\ sortValue = "none"
    /\ btn = ReadyBtn
    /\ initCall = Idle
    /\ refreshCall = Idle
    /\ started = 0
    /\ itemsFrom = 0
    /\ last = NoStep
    /\ unhandled = FALSE

NoProbe ==
    /\ expiryStr = <<>>
    /\ info = NotCalled
    /\ text = [header |-> <<>>, rows |-> <<>>, end |-> <<>>, raw |-> <<>>]
    /\ data = NotCalled

Init ==
    /\ probe = "app"
    /\ today = AppToday
    /\ tz = AppZone
    /\ NoProbe
    /\ PageInit

probeVars == <<today, tz, probe, expiryStr, info, text, data>>
pageVars == <<items, fetched, dom, filterValue, sortValue, btn, initCall,
              refreshCall, started, itemsFrom, last, unhandled>>

\* window 'load' -> init(): runs up to  await fetch(CSV_URL)
Load ==
    /\ probe = "app"
    /\ initCall = Idle
    /\ started < MaxFetches
    /\ started' = started + 1
    /\ initCall' = Fetching(started + 1)
    /\ last' = Step("load", 0, FALSE, FALSE)
    /\ UNCHANGED <<items, fetched, dom, filterValue, sortValue, btn,
                   refreshCall, itemsFrom, unhandled>>
    /\ UNCHANGED probeVars

\* init() resumed with the response text
InitResolve ==
    /\ probe = "app"
    /\ initCall.pc = "fetching"
    /\ \E txt \in Responses :
         LET raw == parsed[txt]
             mapped == mappedRaw[txt]
             r == renderAll(mapped, filterValue, sortValue)
         IN  IF Len(raw) = 0
             THEN /\ last' = Step("initResolve", 0, FALSE, FALSE)
                  /\ UNCHANGED <<items, fetched, dom, itemsFrom>>
             ELSE /\ items' = r.items
                  /\ fetched' = mapped
                  /\ dom' = r.dom
                  /\ itemsFrom' = initCall.n
                  /\ last' = Step("initResolve", Len(raw), FALSE,
                                  initCall.n < itemsFrom)
    /\ initCall' = Done
    /\ UNCHANGED <<filterValue, sortValue, btn, refreshCall, started, unhandled>>
    /\ UNCHANGED probeVars

\* fetch() or resp.text() rejects inside init(): the promise init() returned
\* to the load listener rejects, and nothing handles it
InitReject ==
    /\ probe = "app"
    /\ initCall.pc = "fetching"
    /\ initCall' = Done
    /\ unhandled' = TRUE
    /\ last' = Step("initReject", 0, FALSE, FALSE)
    /\ UNCHANGED <<items, fetched, dom, filterValue, sortValue, btn,
                   refreshCall, started, itemsFrom>>
    /\ UNCHANGED probeVars

\* click on refreshBtn (a disabled button gets no click): runs up to
\* await fetch(CSV_URL)
RefreshClick ==
    /\ probe = "app"
    /\ ~btn.disabled
    /\ started < MaxFetches
    /\ btn' = BusyBtn
    /\ started' = started + 1
    /\ refreshCall' = Fetching(started + 1)
    /\ last' = Step("refreshClick", 0, FALSE, FALSE)
    /\ UNCHANGED <<items, fetched, dom, filterValue, sortValue, initCall,
                   itemsFrom, unhandled>>
    /\ UNCHANGED probeVars

\* the click handler resumed with the response text: try body, then finally
RefreshResolve ==
    /\ probe = "app"
    /\ refreshCall.pc = "fetching"
    /\ \E txt \in Responses :
         LET raw == parsed[txt]
             mapped == mappedRaw[txt]
             r == renderAll(mapped, filterValue, sortValue)
         IN  /\ items' = r.items
             /\ fetched' = mapped
             /\ dom' = r.dom
             /\ last' = Step("refreshResolve", Len(raw), FALSE,
                             refreshCall.n < itemsFrom)
    /\ itemsFrom' = refreshCall.n
    /\ btn' = ReadyBtn
    /\ refreshCall' = Idle
    /\ UNCHANGED <<filterValue, sortValue, initCall, started, unhandled>>
    /\ UNCHANGED probeVars

RefreshReject_clears ==
    /\ probe = "app"
    /\ refreshCall.pc = "fetching"
    /\ items' = <<>>
    /\ dom' = renderAll(<<>>, filterValue, sortValue).dom
    /\ last' = Step("refreshReject", 0, TRUE, FALSE)
    /\ btn' = ReadyBtn
    /\ refreshCall' = Idle
    /\ UNCHANGED <<fetched, filterValue, sortValue, initCall, started,
                   itemsFrom, unhandled>>
    /\ UNCHANGED probeVars

\* fetch() or resp.text() rejects inside the click handler: catch (alert),
\* then finally
RefreshReject ==
    /\ probe = "app"
    /\ refreshCall.pc = "fetching"
    /\ last' = Step("refreshReject", 0, TRUE, FALSE)
    /\ btn' = ReadyBtn
    /\ refreshCall' = Idle
    /\ UNCHANGED <<items, fetched, dom, filterValue, sortValue, initCall,
                   started, itemsFrom, unhandled>>
    /\ UNCHANGED probeVars

\* 'change' on sortSelect -> renderAll()
SortChange ==
    /\ probe = "app"
    /\ \E v \in SortValues \ {sortValue} :
         LET r == renderAll(items, filterValue, v)
         IN  /\ sortValue' = v
             /\ items' = r.items
             /\ dom' = r.dom
    /\ last' = Step("sortChange", 0, FALSE, FALSE)
    /\ UNCHANGED <<fetched, filterValue, btn, initCall, refreshCall, started,
                   itemsFrom, unhandled>>
    /\ UNCHANGED probeVars

\* 'change' on filterSelect -> renderAll()
FilterChange ==
    /\ probe = "app"
    /\ \E v \in FilterValues \ {filterValue} :
         LET r == renderAll(items, v, sortValue)
         IN  /\ filterValue' = v
             /\ items' = r.items
             /\ dom' = r.dom
    /\ last' = Step("filterChange", 0, FALSE, FALSE)
    /\ UNCHANGED <<fetched, sortValue, btn, initCall, refreshCall, started,
                   itemsFrom, unhandled>>
    /\ UNCHANGED probeVars

Next ==
    \/ Load
    \/ InitResolve
    \/ InitReject
    \/ RefreshClick
    \/ RefreshResolve
    \/ RefreshReject
    \/ SortChange
    \/ FilterChange

Spec == Init /\ [][Next]_vars

----------------------------------------------------------------------------
(* Probes of the two pure functions *)

InitExpiry ==
    /\ probe = "expiry"
    /\ today \in Todays
    /\ tz \in Zones
    /\ expiryStr \in ExpiryInputs
    /\ info = NotCalled
    /\ text = [header |-> <<>>, rows |-> <<>>, end |-> <<>>, raw |-> <<>>]
    /\ data = NotCalled
    /\ PageInit

CallComputeExpiryInfo ==
    /\ probe = "expiry"
    /\ ~info.called
    /\ info' = Returned(computeExpiryInfo(expiryStr, today, tz))
    /\ UNCHANGED <<today, tz, probe, expiryStr, text, data>>
    /\ UNCHANGED pageVars

NextExpiry == CallComputeExpiryInfo

SpecExpiry == InitExpiry /\ [][NextExpiry]_vars

InitParse ==
    /\ probe = "parse"
    /\ today = AppToday
    /\ tz = "fixed"
    /\ expiryStr = <<>>
    /\ info = NotCalled
    /\ text \in ProbeTexts
    /\ data = NotCalled
    /\ PageInit

CallParse ==
    /\ probe = "parse"
    /\ ~data.called
    /\ data' = Returned(fetchAndParseCSV(text.raw))
    /\ UNCHANGED <<today, tz, probe, expiryStr, info, text>>
    /\ UNCHANGED pageVars

NextParse == CallParse

SpecParse == InitParse /\ [][NextParse]_vars

----------------------------------------------------------------------------
(* Properties of computeExpiryInfo *)

AllDigits(c) == c # <<>> /\ \A i \in 1..Len(c) : IsDigit(c[i])

Malformed(s) ==
    \/ trim(s) = <<>>
    \/ trim(s) = <<"-">>
    \/ LET cs == split(s, "-")
       IN  Len(cs) # 3 \/ \E i \in 1..Len(cs) : ~AllDigits(trim(cs[i]))

\* YYYY-M-D or YYYY-MM-DD, digits only
WellFormed(s) ==
    LET cs == split(s, "-")
    IN  /\ Len(cs) = 3
        /\ \A i \in 1..3 : AllDigits(cs[i])
        /\ Len(cs[1]) = 4
        /\ Len(cs[2]) \in 1..2
        /\ Len(cs[3]) \in 1..2

IsToday(s) ==
    LET cs == split(s, "-")
    IN  /\ digitsValue(cs[1]) = today.y
        /\ digitsValue(cs[2]) = today.m
        /\ digitsValue(cs[3]) = today.d

\* C1: an expiry string that is empty, blank, '-' after trimming, or that
\* does not split on '-' into exactly 3 numeric components is returned as
\* {daysLeft: null, status: 'noexpiry'}
C1_MalformedIsNoExpiry ==
    (info.called /\ Malformed(expiryStr)) => info.value = NoExpiry

\* C2: a well-formed date gets a numeric daysLeft, 0 for today's date, and
\* its status from daysLeft: <= 30 expired, else <= 89 soon, else safe
C2_StatusFromDaysLeft ==
    (info.called /\ WellFormed(expiryStr)) =>
        LET d == info.value.daysLeft
        IN  /\ IsNum(d)
            /\ (IsToday(expiryStr) => d.val = 0)
            /\ (d.val <= 30 => info.value.status = "expired")
            /\ (d.val >= 31 /\ d.val <= 89 => info.value.status = "soon")
            /\ (d.val >= 90 => info.value.status = "safe")

C2_Witness ==
    /\ info.called
    /\ WellFormed(expiryStr)
    /\ info.value.daysLeft = Num(30)
    /\ info.value.status = "expired"

----------------------------------------------------------------------------
(* Properties of the parser *)

Blank(l) == trim(l) = <<>>

trimmedTokens(l) ==
    LET raw == split(l, ",") IN [i \in 1..Len(raw) |-> trim(raw[i])]

\* the record the data line l is to give under the header line h
RecordAsClaimed(rec, h, l) ==
    LET hs == trimmedTokens(h)
        ts == trimmedTokens(l)
    IN  /\ DOMAIN rec = Range(hs)
        /\ \A i \in 1..Len(hs) :
              (\A j \in 1..Len(hs) : j # i => hs[j] # hs[i]) =>
                  rec[hs[i]] = IF i <= Len(ts) THEN ts[i] ELSE <<>>

ParsedAsClaimed ==
    /\ Len(data.value) = Len(text.rows)
    /\ \A k \in 1..Len(text.rows) :
          RecordAsClaimed(data.value[k], text.header, text.rows[k])

\* C3 as stated: a text of a (non-blank) header line and K data lines gives K records in
\* line order, keyed by the trimmed header tokens, short lines filled with
\* '', surplus tokens dropped
C3_KRecords == (data.called /\ ~Blank(text.header)) => ParsedAsClaimed

\* C3 amended: the same, for texts whose header line and last data line are
\* not blank
C3_KRecordsNonBlankEnds ==
    (/\ data.called
     /\ ~Blank(text.header)
     /\ (text.rows # <<>> => ~Blank(text.rows[Len(text.rows)])))
        => ParsedAsClaimed

C3_Witness ==
    /\ data.called
    /\ text.header = <<"a", ",", "b", ",", "c">>
    /\ text.rows = <<<<"1">>, <<"1", ",", "2", ",", "3", ",", "4">>>>
    /\ Len(data.value) = 2
    /\ data.value[1][<<"c">>] = <<>>

----------------------------------------------------------------------------
(* Properties of the page *)

\* C4: the summary counts on the page are those of the whole items array,
\* whatever the filter and the sort mode
C4_CountsOverAllItems ==
    dom.rendered =>
        /\ dom.total = Len(items)
        /\ dom.safe = Cardinality({i \in 1..Len(items) : items[i].meta.status = "safe"})
        /\ dom.soon = Cardinality({i \in 1..Len(items) : items[i].meta.status = "soon"})
        /\ dom.expired = Cardinality({i \in 1..Len(items) : items[i].meta.status = "expired"})

C4_Witness ==
    /\ dom.rendered
    /\ filterValue = <<"c">>
    /\ dom.cards = <<>>
    /\ dom.total = 2
    /\ dom.expired = 1
    /\ dom.soon = 1

\* C5: with sort mode 'expiry' the cards are ascending by daysLeft and no
\* card without expiry comes before a dated card
C5_NoExpiryLast ==
    (dom.rendered /\ sortValue = "expiry") =>
        \A i, j \in 1..Len(dom.cards) :
            i < j =>
              LET a == dom.cards[i].meta.daysLeft
                  b == dom.cards[j].meta.daysLeft
              IN  /\ (a = Null => b = Null)
                  /\ (IsNum(a) /\ IsNum(b) => a.val <= b.val)

InFlight ==
    (IF initCall.pc = "fetching" THEN 1 ELSE 0)
    + (IF refreshCall.pc = "fetching" THEN 1 ELSE 0)

\* C6: at most one fetch is in flight, the one of init included, and no
\* response of an earlier fetch replaces items of a later one
C6_AtMostOneFetch == InFlight <= 1 /\ ~last.stale

\* C7: a refresh whose fetch fails changes neither items nor the page, from
\* the click to the end of the handler, and leaves the button enabled with
\* its ready label
C7_FailedRefreshKeepsView ==
    [][/\ (refreshCall.pc = "idle" /\ refreshCall'.pc = "fetching")
            => (items' = items /\ dom' = dom)
       /\ (refreshCall.pc = "fetching" /\ last'.step = "refreshReject")
            => (items' = items /\ dom' = dom /\ btn' = ReadyBtn)]_vars

C7_Witness ==
    /\ last.step = "refreshReject"
    /\ Len(items) = 2
    /\ dom.rendered
    /\ dom.cards # <<>>
    /\ btn = ReadyBtn

\* C8: every failed fetch, of init or of a refresh, ends in a notification
\* and never in an unhandled rejection
C8_FailuresCaught ==
    /\ ~unhandled
    /\ (last.step \in {"initReject", "refreshReject"} => last.alerted)

\* C9: after a fetch of init or of a refresh that brought no data row the
\* page shows four zero counts and the 'no urgent items' message
C9_EmptyShowsZeros ==
    (last.step \in {"initResolve", "refreshResolve"} /\ last.rows = 0) =>
        /\ dom.rendered
        /\ dom.total = 0 /\ dom.safe = 0 /\ dom.soon = 0 /\ dom.expired = 0
        /\ dom.noUrgentMsg

\* C10: rendering never changes items, which stays the array of the last
\* fetch; with filter 'all' and sort 'none' the cards are that array
C10_RenderKeepsItems ==
    /\ items = fetched
    /\ (dom.rendered /\ filterValue = All /\ sortValue = "none")
          => dom.cards = fetched

C10_Witness ==
    /\ last.step = "sortChange"
    /\ sortValue = "none"
    /\ filterValue = All
    /\ Len(items) = 2
    /\ sort("expiry", items) # items
    /\ dom.cards = items

====
